---- MODULE Spec2Model ----
(***************************************************************************)
(* State machine of the BUAS dashboard client: the Dashboard component     *)
(* (frontend/src/components/Dashboard.js), the transport adapter           *)
(* (frontend/src/services/api.js) and the UserList buttons that invoke the *)
(* Dashboard handlers.  An async function is split at its awaits: every    *)
(* action is one synchronous run of JavaScript between two awaits,         *)
(* together with the React render and effect pass it triggers.             *)
(***************************************************************************)
EXTENDS Integers, Sequences, FiniteSets, TLC

VARIABLES
    dashboardData,     \* useState(null): the snapshot shown
    loading,           \* useState(true)
    error,             \* useState(null): message of the last caught exception
    isPolling,         \* useState(true)
    lastUpdated,       \* useState(null): local receipt time
    connectionStatus,  \* useState('connecting')
    currentAudio,      \* useState(null): the audio session
    retryCount,        \* the guide's hook variant keeps useState(0)
    env,               \* process.env as baked into the build
    mounted,           \* the component is mounted (React drops setState after unmount)
    timers,            \* armed interval timers of the window: records [id, due]
    pollInterval,      \* the `pollInterval` local of the current effect run
    inflight,          \* running fetchDashboardData calls, oldest first
    commands,          \* running handleStartListening/handleStopListening calls
    console,           \* the last line written by console.warn / console.error
    serviceHealthy,    \* the collection service answers every request from now on
    call,              \* the last call made at an interface under observation
    now                \* the wall clock read by new Date(), in ms

vars == <<dashboardData, loading, error, isPolling, lastUpdated, connectionStatus,
          currentAudio, retryCount, env, mounted, timers, pollInterval, inflight,
          commands, console, serviceHealthy, call, now>>

published == <<dashboardData, connectionStatus, lastUpdated, error>>

\* the React state the Dashboard renders from
rendered == <<dashboardData, loading, error, isPolling, lastUpdated,
              connectionStatus, currentAudio>>

-----------------------------------------------------------------------------
(* Bounds of the model *)

MaxInFlight == 2
MaxCommands == 2
MaxTicks == 2
MaxRetry == 2

-----------------------------------------------------------------------------
(* JavaScript values *)

Null == "<null>"
Undefined == "<undefined>"
NullDate == -1
NoTimer == 0

JsonNull == [type |-> "null"]

\* no call has been observed
NoCall == [op |-> "<none>"]
Unparsable == [type |-> "unparsable"]

\* x || d for string-valued x
OrElse(x, d) == IF x \in {Undefined, Null, ""} THEN d ELSE x

-----------------------------------------------------------------------------
(* The collection service: what one request can come back with *)

\* latest_audio is kept as its '/'-separated segments; <<>> is an absent one
Device(id, status, audio) == [user_id |-> id, status |-> status, latest_audio |-> audio]

SnapshotA ==
    [type |-> "object",
     users |-> << Device("dev1", "idle", <<"", "api", "audio", "dev1", "a.wav">>) >>,
     connection_status |-> Undefined,
     error |-> Undefined]

SnapshotB ==
    [type |-> "object",
     users |-> << Device("dev1", "listening", <<>>),
                  Device("dev2", "idle", <<"", "api", "audio", "dev2", "b.wav">>) >>,
     connection_status |-> "disconnected",
     error |-> Undefined]

Snapshots == {SnapshotA, SnapshotB}

HTTP_OK == 200
HTTP_SERVER_ERROR == 500

NetworkError == [kind |-> "network_error", status |-> 0, body |-> Unparsable]
HttpResponse(status, body) == [kind |-> "http", status |-> status, body |-> body]

Ack == [type |-> "object", users |-> <<>>, connection_status |-> Undefined,
        error |-> Undefined]

\* responses to GET /api/dashboard-data
DataResponses ==
    {NetworkError, HttpResponse(HTTP_SERVER_ERROR, Unparsable),
     HttpResponse(HTTP_OK, Unparsable), HttpResponse(HTTP_OK, JsonNull)}
    \cup {HttpResponse(HTTP_OK, s) : s \in Snapshots}

\* An optional field the service left out is a property the payload does not
\* have: a payload with the fields named in present
SparsePayload(present) ==
    (IF "users" \in present THEN [users |-> << Device("dev1", "idle", <<>>) >>]
     ELSE <<>>)
    @@ (IF "total_users" \in present THEN [total_users |-> 1] ELSE <<>>)
    @@ (IF "active_sessions_count" \in present THEN [active_sessions_count |-> 1]
        ELSE <<>>)
    @@ [type |-> "object", connection_status |-> Undefined, error |-> Undefined]

OptionalFields == {"users", "total_users", "active_sessions_count"}

\* successful responses to GET /api/dashboard-data with optional fields left out
SparseResponses ==
    {HttpResponse(HTTP_OK, SparsePayload(present)) : present \in SUBSET OptionalFields}

\* responses to the health probe and to the POST commands
PlainResponses ==
    {NetworkError, HttpResponse(HTTP_SERVER_ERROR, Unparsable), HttpResponse(HTTP_OK, Ack)}

-----------------------------------------------------------------------------
(* api.js: getApiUrl *)

PRODUCTION_BASE == "http://143.244.133.125:5000"
DEVELOPMENT_BASE == "http://localhost:5000"

\* API_BASE_URL, the baseURL every request URL starts with
getApiUrl(e) ==
    IF e.NODE_ENV = "production" THEN OrElse(e.REACT_APP_VPS_URL, PRODUCTION_BASE)
    ELSE OrElse(e.REACT_APP_API_URL, DEVELOPMENT_BASE)

-----------------------------------------------------------------------------
(* api.js: ApiService.request *)

DASHBOARD_ENDPOINT == "/api/dashboard-data"
HEALTH_ENDPOINT == "/api/health"

\* response.ok
ResponseOk(r) == r.status >= 200 /\ r.status <= 299

\* the message of the exception raised inside request's try block, or Undefined
ThrownInTry(r) ==
    IF r.kind = "network_error" THEN "Failed to fetch"
    ELSE IF ~ResponseOk(r) THEN "HTTP error! status: " \o ToString(r.status)
    ELSE IF r.body = Unparsable THEN "Unexpected end of JSON input"
    ELSE Undefined

\* (mutant) a fallback that does not flag the failure
FallbackDataUnflagged(message) ==
    [type |-> "object", active_sessions_count |-> 0, total_users |-> 0,
     connection_status |-> Undefined, users |-> <<>>, active_sessions |-> <<>>,
     error |-> message]

\* the object request returns in place of the dashboard payload (its stats
\* block and its last_updated stamp, which nothing reads, are left out)
FallbackData(message) ==
    [type |-> "object", active_sessions_count |-> 0, total_users |-> 0,
     connection_status |-> "error", users |-> <<>>, active_sessions |-> <<>>,
     error |-> message]

\* (mutant) a request that answers every failure with the fallback object
RequestAlwaysFallback(endpoint, r) ==
    LET thrown == ThrownInTry(r) IN
    IF thrown = Undefined
        THEN [threw |-> FALSE, value |-> r.body, message |-> Undefined]
    ELSE [threw |-> FALSE, value |-> FallbackData(thrown), message |-> Undefined]

\* [threw, value, message]: what `await this.request(endpoint)` gives its caller
Request(endpoint, r) ==
    LET thrown == ThrownInTry(r) IN
    IF thrown = Undefined
        THEN [threw |-> FALSE, value |-> r.body, message |-> Undefined]
    ELSE IF endpoint = DASHBOARD_ENDPOINT
        THEN [threw |-> FALSE, value |-> FallbackData(thrown), message |-> Undefined]
    ELSE [threw |-> TRUE, value |-> JsonNull, message |-> thrown]

\* console.error(`API request failed for ${endpoint}:`, error) in request's
\* catch block, or Undefined when the try block did not throw
RequestLog(endpoint, r) ==
    IF ThrownInTry(r) = Undefined THEN Undefined
    ELSE "API request failed for " \o endpoint \o ":"

StartEndpoint(userId) == "/api/start-listening/" \o userId
StopEndpoint(userId) == "/api/stop-listening/" \o userId

getDashboardData(r) == Request(DASHBOARD_ENDPOINT, r)
getHealthCheck(r) == Request(HEALTH_ENDPOINT, r)
startListening(userId, r) == Request(StartEndpoint(userId), r)
stopListening(userId, r) == Request(StopEndpoint(userId), r)

AudioEndpoint(deviceId) == "/api/audio/" \o deviceId \o "/latest"
getLatestAudio(deviceId, r) == Request(AudioEndpoint(deviceId), r)

-----------------------------------------------------------------------------
(* api.js: the request ApiService.request sends.  An object is a function *)
(* from its property names; {...a, ...b} is b @@ a.                        *)

\* 'Basic ' + btoa('admin:supersecret')
AUTH_HEADER == "Basic YWRtaW46c3VwZXJzZWNyZXQ="

EmptyObject == <<>>

\* options = {} unless the caller passes some
PostOptions == [method |-> "POST"]

DefaultHeaders ==
    ("Content-Type" :> "application/json") @@ ("Authorization" :> AUTH_HEADER)
        @@ ("Accept" :> "application/json")

\* ...options.headers: spreading undefined adds nothing
SpreadHeaders(options) ==
    IF "headers" \in DOMAIN options THEN options.headers ELSE EmptyObject

\* the config object handed to fetch
RequestConfig(options) ==
    options @@ [mode |-> "cors", credentials |-> "omit",
                headers |-> SpreadHeaders(options) @@ DefaultHeaders]

\* what fetch is called with
SentRequest(e, endpoint, options) ==
    [url |-> getApiUrl(e) \o endpoint, config |-> RequestConfig(options)]

-----------------------------------------------------------------------------
(* The console: the last line written *)

NO_OUTPUT == "<no output>"
HEALTH_WARNING == "Health check failed, but attempting dashboard data fetch..."
FETCH_ERROR == "Failed to fetch dashboard data:"
START_ERROR == "Failed to start listening:"
STOP_ERROR == "Failed to stop listening:"

\* the last line after the lines of `lines` that are not Undefined were written
\* in order
LastLine(lines) ==
    LET written == SelectSeq(lines, LAMBDA l : l # Undefined)
    IN IF written = <<>> THEN console ELSE written[Len(written)]

-----------------------------------------------------------------------------
(* Dashboard.js: fetchDashboardData *)

POLL_INTERVAL == 2000

TYPE_ERROR_MESSAGE == "Cannot read properties of null (reading 'connection_status')"

\* one running call of fetchDashboardData: where it was called from, the await
\* it is suspended at, and whether a call made after it has already been shown
\* (mutant) a call that sends the probe and the data request together
NewFetchInParallel(origin) == [origin |-> origin, phase |-> "data", stale |-> FALSE]

NewFetch(origin) == [origin |-> origin, phase |-> "health", stale |-> FALSE]

\* (mutant) setConnectionStatus('connected')
StatusAlwaysConnected(data) == "connected"

\* setConnectionStatus(data.connection_status || 'connected')
StatusOf(data) == OrElse(data.connection_status, "connected")

\* (mutant) a success branch without setError(null)
AfterFetchKeepsError(res) ==
    IF res.threw
        THEN [dashboardData |-> dashboardData, connectionStatus |-> "error",
              lastUpdated |-> lastUpdated, error |-> res.message,
              loading |-> FALSE, shown |-> FALSE]
    ELSE IF res.value = JsonNull
        THEN [dashboardData |-> res.value, connectionStatus |-> "error",
              lastUpdated |-> lastUpdated, error |-> TYPE_ERROR_MESSAGE,
              loading |-> FALSE, shown |-> TRUE]
    ELSE [dashboardData |-> res.value, connectionStatus |-> StatusOf(res.value),
          lastUpdated |-> now, error |-> error,
          loading |-> FALSE, shown |-> TRUE]

\* The state fetchDashboardData leaves behind once `await getDashboardData()`
\* has given `res`: lines 31-34, the catch branch and the finally branch.
\* `shown` tells whether setDashboardData ran.
AfterFetch(res) ==
    IF res.threw
        THEN [dashboardData |-> dashboardData, connectionStatus |-> "error",
              lastUpdated |-> lastUpdated, error |-> res.message,
              loading |-> FALSE, shown |-> FALSE]
    ELSE IF res.value = JsonNull
        THEN [dashboardData |-> res.value, connectionStatus |-> "error",
              lastUpdated |-> lastUpdated, error |-> TYPE_ERROR_MESSAGE,
              loading |-> FALSE, shown |-> TRUE]
    ELSE [dashboardData |-> res.value, connectionStatus |-> StatusOf(res.value),
          lastUpdated |-> now, error |-> Null,
          loading |-> FALSE, shown |-> TRUE]

\* The retry counter of the guide's variant of fetchDashboardData:
\* setRetryCount(0) at the end of its try block, setRetryCount(prev => prev + 1)
\* in its catch block, which a null body reaches as well (data.users of null)
RetryAfterFetch(res) ==
    IF res.threw \/ res.value = JsonNull THEN retryCount + 1 ELSE 0

\* (mutant) a health precheck whose rejection ends the poll
AfterHealthStopsOnFailure(res) == IF res.threw THEN "failed" ELSE "data"

\* the inner try/catch around the health probe: whatever the probe gave, the
\* call goes on to `await ApiService.getDashboardData()`
AfterHealth(res) == "data"

\* console.warn of the inner catch block
HealthLog(res) == IF res.threw THEN HEALTH_WARNING ELSE Undefined

\* console.error of the outer catch block
FetchLog(res) ==
    IF res.threw \/ res.value = JsonNull THEN FETCH_ERROR ELSE Undefined

\* the running calls left when call i returns; after call i has shown its data
\* the calls made before it are stale, the calls made after it are not
Remaining(i, shown) ==
    LET keep == SelectSeq([j \in 1..Len(inflight) |-> [idx |-> j, f |-> inflight[j]]],
                          LAMBDA e : e.idx # i)
    IN [k \in 1..Len(keep) |->
            IF shown THEN [keep[k].f EXCEPT !.stale = (keep[k].idx < i)]
            ELSE keep[k].f]

-----------------------------------------------------------------------------
(* Dashboard.js: the polling effect, useEffect(..., [isPolling]) *)

\* (mutant) an effect without a dependency list runs after every render
EffectRunsEveryRender(prev, next) == TRUE

\* React runs an effect again only when one of its dependencies changed
EffectDepsChanged(prev, next) == prev # next

\* (mutant) a cleanup that forgets clearInterval
EffectCleanupNoClear(ts, handle) == ts

\* the cleanup returned by the previous run of the effect
EffectCleanup(ts, handle) ==
    IF handle # NoTimer THEN {t \in ts : t.id # handle} ELSE ts

\* the handle setInterval returns: the smallest one not in use
FreshTimerId(ts) ==
    CHOOSE n \in 1..(Cardinality(ts) + 1) :
        /\ \A t \in ts : t.id # n
        /\ \A m \in 1..(n - 1) : \E t \in ts : t.id = m

\* setInterval(fetchDashboardData, 2000)
setInterval(ts, id) == ts \cup {[id |-> id, due |-> now + POLL_INTERVAL]}

\* (mutant) an effect that arms the interval but leaves the first fetch to it
EffectPassWithoutFirstFetch(prev, next) ==
    IF ~EffectDepsChanged(prev, next)
        THEN [timers |-> timers, pollInterval |-> pollInterval, fetch |-> FALSE]
    ELSE LET cleaned == EffectCleanup(timers, pollInterval)
             id == FreshTimerId(cleaned)
         IN IF next
                THEN [timers |-> setInterval(cleaned, id), pollInterval |-> id,
                      fetch |-> FALSE]
                ELSE [timers |-> cleaned, pollInterval |-> NoTimer, fetch |-> FALSE]

\* [timers, pollInterval, fetch]: the effect pass of a render in which isPolling
\* goes from prev to next; fetch tells whether the effect called fetchDashboardData
EffectPass(prev, next) ==
    IF ~EffectDepsChanged(prev, next)
        THEN [timers |-> timers, pollInterval |-> pollInterval, fetch |-> FALSE]
    ELSE LET cleaned == EffectCleanup(timers, pollInterval)
             id == FreshTimerId(cleaned)
         IN IF next
                THEN [timers |-> setInterval(cleaned, id), pollInterval |-> id,
                      fetch |-> TRUE]
                ELSE [timers |-> cleaned, pollInterval |-> NoTimer, fetch |-> FALSE]

\* the Dashboard renders its controls and the user list, not the loading screen
ControlsShown == mounted /\ ~(loading /\ dashboardData = JsonNull)

\* data?.name || fallback, for a property that is absent or holds a truthy value
PropOr(data, name, fallback) ==
    IF data = JsonNull \/ name \notin DOMAIN data THEN fallback ELSE data[name]

\* dashboardData?.users || []
ShownUsers == PropOr(dashboardData, "users", <<>>)

\* dashboardData?.total_users || 0 and dashboardData?.active_sessions_count || 0
\* in the footer
\* (mutant) a footer that counts the rows of the list instead
ShownTotalUsersCounted == Len(PropOr(dashboardData, "users", <<>>))

ShownTotalUsers == PropOr(dashboardData, "total_users", 0)
ShownActiveSessions == PropOr(dashboardData, "active_sessions_count", 0)

ShownDevices == {ShownUsers[k] : k \in 1..Len(ShownUsers)}

-----------------------------------------------------------------------------
(* The environment the build was made for *)

DevelopmentEnv ==
    [NODE_ENV |-> "development", REACT_APP_VPS_URL |-> Undefined,
     REACT_APP_API_URL |-> Undefined]

\* the configurations a build can be made with
EnvConfigs ==
    [NODE_ENV : {"production", "development", "test"},
     REACT_APP_VPS_URL : {Undefined, "https://vps.example"},
     REACT_APP_API_URL : {Undefined, "http://api.example:8000"}]

-----------------------------------------------------------------------------
(* The state after the component has mounted: first render and effect run *)

InitWith(e) ==
    /\ dashboardData = JsonNull
    /\ loading = TRUE
    /\ error = Null
    /\ isPolling = TRUE
    /\ lastUpdated = NullDate
    /\ connectionStatus = "connecting"
    /\ currentAudio = JsonNull
    /\ retryCount = 0
    /\ env = e
    /\ mounted = TRUE
    /\ now = 0
    /\ timers = {[id |-> 1, due |-> POLL_INTERVAL]}
    /\ pollInterval = 1
    /\ inflight = << NewFetch("effect") >>
    /\ commands = <<>>
    /\ console = NO_OUTPUT
    /\ serviceHealthy = FALSE
    /\ call = NoCall

Init == InitWith(DevelopmentEnv)

InitAnyEnv == \E e \in EnvConfigs : InitWith(e)

-----------------------------------------------------------------------------
(* Time and the interval timer *)

ClockStep == POLL_INTERVAL \div 2
Horizon == MaxTicks * POLL_INTERVAL

TimePasses ==
    /\ now + ClockStep <= Horizon
    /\ \A t \in timers : now < t.due
    /\ now' = now + ClockStep
    /\ UNCHANGED <<dashboardData, loading, error, isPolling, lastUpdated,
                   connectionStatus, currentAudio, retryCount, env, serviceHealthy, call, mounted,
                   timers, pollInterval, inflight, commands, console>>

\* the interval fires: fetchDashboardData() runs up to its first await
TimerTick(t) ==
    /\ t \in timers
    /\ now >= t.due
    /\ Len(inflight) < MaxInFlight
    /\ inflight' = Append(inflight, NewFetch("timer"))
    /\ timers' = (timers \ {t}) \cup {[t EXCEPT !.due = t.due + POLL_INTERVAL]}
    /\ UNCHANGED <<dashboardData, loading, error, isPolling, lastUpdated,
                   connectionStatus, currentAudio, retryCount, env, serviceHealthy, call, mounted,
                   pollInterval, commands, console, now>>

-----------------------------------------------------------------------------
(* fetchDashboardData resumes *)

\* `await ApiService.getHealthCheck()` settles; a rejection is only logged, and
\* getDashboardData() is called
HealthSettles(i, r) ==
    /\ i \in 1..Len(inflight)
    /\ inflight[i].phase = "health"
    /\ r \in PlainResponses
    /\ inflight' = [inflight EXCEPT ![i].phase = AfterHealth(getHealthCheck(r))]
    /\ console' = LastLine(<< RequestLog(HEALTH_ENDPOINT, r),
                              HealthLog(getHealthCheck(r)) >>)
    /\ UNCHANGED <<dashboardData, loading, error, isPolling, lastUpdated,
                   connectionStatus, currentAudio, retryCount, env, serviceHealthy, call, mounted,
                   timers, pollInterval, commands, now>>

\* `await ApiService.getDashboardData()` settles and the function runs to its end
DataSettles(i, r) ==
    /\ i \in 1..Len(inflight)
    /\ inflight[i].phase = "data"
    /\ r \in DataResponses \cup SparseResponses
    /\ LET res == getDashboardData(r)
           after == AfterFetch(res)
       IN
       IF mounted
           THEN /\ RetryAfterFetch(res) <= MaxRetry
                /\ dashboardData' = after.dashboardData
                /\ connectionStatus' = after.connectionStatus
                /\ lastUpdated' = after.lastUpdated
                /\ error' = after.error
                /\ retryCount' = RetryAfterFetch(res)
                /\ loading' = after.loading
                /\ LET e == EffectPass(isPolling, isPolling)
                       rest == Remaining(i, after.shown)
                   IN /\ isPolling' = isPolling
                      /\ timers' = e.timers
                      /\ pollInterval' = e.pollInterval
                      /\ inflight' = IF e.fetch THEN Append(rest, NewFetch("effect"))
                                     ELSE rest
           ELSE /\ inflight' = Remaining(i, FALSE)
                /\ UNCHANGED <<dashboardData, connectionStatus, lastUpdated, error,
                               retryCount, loading, isPolling, timers, pollInterval>>
    /\ console' = LastLine(<< RequestLog(DASHBOARD_ENDPOINT, r),
                              FetchLog(getDashboardData(r)) >>)
    /\ UNCHANGED <<currentAudio, env, serviceHealthy, call, mounted, commands, now>>

-----------------------------------------------------------------------------
(* togglePolling, and the component going away *)

togglePolling ==
    /\ ControlsShown
    /\ LET next == ~isPolling
           e == EffectPass(isPolling, next)
       IN /\ e.fetch => Len(inflight) < MaxInFlight
          /\ isPolling' = next
          /\ timers' = e.timers
          /\ pollInterval' = e.pollInterval
          /\ inflight' = IF e.fetch THEN Append(inflight, NewFetch("effect"))
                         ELSE inflight
    /\ UNCHANGED <<dashboardData, loading, error, lastUpdated, connectionStatus,
                   currentAudio, retryCount, env, serviceHealthy, call, mounted, commands,
                   console, now>>

\* React unmounts the Dashboard: the effect's cleanup runs
Unmount ==
    /\ mounted
    /\ mounted' = FALSE
    /\ timers' = EffectCleanup(timers, pollInterval)
    /\ pollInterval' = NoTimer
    /\ UNCHANGED <<dashboardData, loading, error, isPolling, lastUpdated,
                   connectionStatus, currentAudio, retryCount, env, serviceHealthy, call, inflight,
                   commands, console, now>>

-----------------------------------------------------------------------------
(* handleStartListening / handleStopListening *)

NewCommand(kind, userId) == [kind |-> kind, userId |-> userId]

WithoutCommand(j) ==
    SubSeq(commands, 1, j - 1) \o SubSeq(commands, j + 1, Len(commands))

\* the Listen button of a device: handleStartListening runs up to its await
handleStartListening(u) ==
    /\ ControlsShown
    /\ u \in ShownDevices
    /\ u.status # "listening"
    /\ Len(commands) < MaxCommands
    /\ commands' = Append(commands, NewCommand("start", u.user_id))
    /\ UNCHANGED <<dashboardData, loading, error, isPolling, lastUpdated,
                   connectionStatus, currentAudio, retryCount, env, serviceHealthy, call, mounted,
                   timers, pollInterval, inflight, console, now>>

\* the Stop button of a device: handleStopListening runs up to its await
handleStopListening(u) ==
    /\ ControlsShown
    /\ u \in ShownDevices
    /\ u.status = "listening"
    /\ Len(commands) < MaxCommands
    /\ commands' = Append(commands, NewCommand("stop", u.user_id))
    /\ UNCHANGED <<dashboardData, loading, error, isPolling, lastUpdated,
                   connectionStatus, currentAudio, retryCount, env, serviceHealthy, call, mounted,
                   timers, pollInterval, inflight, console, now>>

\* console.error of the handler's catch block (request's own line precedes it)
CommandLog(kind, res) ==
    IF ~res.threw THEN Undefined
    ELSE IF kind = "start" THEN START_ERROR ELSE STOP_ERROR

\* (mutant) a handler that never refreshes
CommandResumesWithoutRefresh(j, res) ==
    /\ commands' = WithoutCommand(j)
    /\ inflight' = inflight
    /\ console' = LastLine(<< CommandLog(commands[j].kind, res) >>)
    /\ UNCHANGED <<dashboardData, loading, error, isPolling, lastUpdated,
                   connectionStatus, currentAudio, retryCount, env, serviceHealthy, call, mounted,
                   timers, pollInterval, now>>

\* (mutant) a handler that refreshes in a finally block
CommandResumesAlwaysRefreshes(j, res) ==
    /\ commands' = WithoutCommand(j)
    /\ inflight' = Append(inflight, NewFetch("command"))
    /\ console' = LastLine(<< CommandLog(commands[j].kind, res) >>)
    /\ UNCHANGED <<dashboardData, loading, error, isPolling, lastUpdated,
                   connectionStatus, currentAudio, retryCount, env, serviceHealthy, call, mounted,
                   timers, pollInterval, now>>

\* the rest of either handler once its request has given `res`: the refresh is
\* called on success, the catch branch only logs
CommandResumes(j, res) ==
    /\ ~res.threw => Len(inflight) < MaxInFlight
    /\ commands' = WithoutCommand(j)
    /\ inflight' = IF res.threw THEN inflight
                   ELSE Append(inflight, NewFetch("command"))
    /\ console' = LastLine(<< CommandLog(commands[j].kind, res) >>)
    /\ UNCHANGED <<dashboardData, loading, error, isPolling, lastUpdated,
                   connectionStatus, currentAudio, retryCount, env, serviceHealthy, call, mounted,
                   timers, pollInterval, now>>

\* (mutant) start requests that are answered one at a time, oldest first
StartListeningSettlesInOrder(j, r) ==
    /\ j = 1
    /\ j \in 1..Len(commands)
    /\ commands[j].kind = "start"
    /\ r \in PlainResponses
    /\ CommandResumes(j, startListening(commands[j].userId, r))

\* `await ApiService.startListening(userId)` settles
StartListeningSettles(j, r) ==
    /\ j \in 1..Len(commands)
    /\ commands[j].kind = "start"
    /\ r \in PlainResponses
    /\ CommandResumes(j, startListening(commands[j].userId, r))

\* `await ApiService.stopListening(userId)` settles
StopListeningSettles(j, r) ==
    /\ j \in 1..Len(commands)
    /\ commands[j].kind = "stop"
    /\ r \in PlainResponses
    /\ CommandResumes(j, stopListening(commands[j].userId, r))

-----------------------------------------------------------------------------
(* handlePlayAudio / handleCloseAudio *)

RECURSIVE JoinPath(_)
\* the string whose '/'-separated segments are segs
JoinPath(segs) ==
    IF Len(segs) = 0 THEN ""
    ELSE IF Len(segs) = 1 THEN segs[1]
    ELSE segs[1] \o "/" \o JoinPath(Tail(segs))

\* the apiBaseUrl of handlePlayAudio
PlayerBaseUrl(e) ==
    IF e.NODE_ENV = "production" THEN PRODUCTION_BASE ELSE DEVELOPMENT_BASE

AudioSession(e, user) ==
    [type |-> "object",
     url |-> PlayerBaseUrl(e) \o JoinPath(user.latest_audio),
     user |-> user.user_id,
     filename |-> user.latest_audio[Len(user.latest_audio)]]

\* (mutant) a handler that closes the session that is open instead of
\* replacing it
handlePlayAudioClosesOpenSession(u) ==
    /\ ControlsShown
    /\ u \in ShownDevices
    /\ currentAudio' = IF u.latest_audio = <<>> THEN currentAudio
                       ELSE IF currentAudio = JsonNull THEN AudioSession(env, u)
                       ELSE JsonNull
    /\ UNCHANGED <<dashboardData, loading, error, isPolling, lastUpdated,
                   connectionStatus, retryCount, env, serviceHealthy, mounted, timers,
                   pollInterval, inflight, commands, console, now>>

\* (mutant) a handler that drops the open session when the device has no audio
handlePlayAudioClearsWhenAbsent(u) ==
    /\ ControlsShown
    /\ u \in ShownDevices
    /\ currentAudio' = IF u.latest_audio # <<>> THEN AudioSession(env, u)
                       ELSE JsonNull
    /\ UNCHANGED <<dashboardData, loading, error, isPolling, lastUpdated,
                   connectionStatus, retryCount, env, serviceHealthy, mounted, timers,
                   pollInterval, inflight, commands, console, now>>

\* (mutant) a handler that pauses polling while a recording plays
handlePlayAudioPausesPolling(u) ==
    /\ ControlsShown
    /\ u \in ShownDevices
    /\ currentAudio' = IF u.latest_audio # <<>> THEN AudioSession(env, u)
                       ELSE currentAudio
    /\ isPolling' = (isPolling /\ u.latest_audio = <<>>)
    /\ timers' = IF isPolling' = isPolling THEN timers
                 ELSE EffectCleanup(timers, pollInterval)
    /\ pollInterval' = IF isPolling' = isPolling THEN pollInterval ELSE NoTimer
    /\ UNCHANGED <<dashboardData, loading, error, lastUpdated,
                   connectionStatus, retryCount, env, serviceHealthy, mounted,
                   inflight, commands, console, now>>

handlePlayAudio(u) ==
    /\ ControlsShown
    /\ u \in ShownDevices
    /\ currentAudio' = IF u.latest_audio # <<>> THEN AudioSession(env, u)
                       ELSE currentAudio
    /\ UNCHANGED <<dashboardData, loading, error, isPolling, lastUpdated,
                   connectionStatus, retryCount, env, serviceHealthy, mounted, timers,
                   pollInterval, inflight, commands, console, now>>

\* what the promise of an async handler that returns nothing and catches
\* everything gives its caller
Fulfilled(op, userId) ==
    [op |-> op, user |-> userId, outcome |-> "fulfilled", value |-> Undefined]

\* (mutant) a close that leaves the session in place
closeAudioKeepsSession ==
    /\ currentAudio' = currentAudio
    /\ UNCHANGED <<dashboardData, loading, error, isPolling, lastUpdated,
                   connectionStatus, retryCount, env, serviceHealthy, mounted, timers,
                   pollInterval, inflight, commands, console, now>>

\* the body of handleCloseAudio: setCurrentAudio(null)
closeAudio ==
    /\ currentAudio' = JsonNull
    /\ UNCHANGED <<dashboardData, loading, error, isPolling, lastUpdated,
                   connectionStatus, retryCount, env, serviceHealthy, mounted, timers,
                   pollInterval, inflight, commands, console, now>>

\* the AudioPlayer overlay, whose close button calls handleCloseAudio, is
\* rendered only while there is a session
handleCloseAudio ==
    /\ ControlsShown
    /\ currentAudio # JsonNull
    /\ closeAudio

-----------------------------------------------------------------------------
(* UserList: filteredUsers.  A string is kept as the sequence of its         *)
(* characters.                                                             *)

\* the truthiness of a string: the empty string is falsy
TruthyString(str) == str # <<>>

\* the truthiness of x.name for a string-valued property: an absent property is
\* undefined, which is falsy
TruthyProp(x, name) == name \in DOMAIN x /\ TruthyString(x[name])

\* String.prototype.toLowerCase, on the letters the model uses
LowerChar(c) == IF c = "A" THEN "a" ELSE IF c = "B" THEN "b" ELSE c
toLowerCase(str) == [k \in 1..Len(str) |-> LowerChar(str[k])]

\* String.prototype.includes
includes(str, part) ==
    \E k \in 0..(Len(str) - Len(part)) : SubSeq(str, k + 1, k + Len(part)) = part

\* (mutant) a search that compares the term as typed
SearchMatchesAsTyped(user, searchTerm) ==
    \/ includes(toLowerCase(user.user_id), searchTerm)
    \/ /\ TruthyProp(user, "device_name")
       /\ includes(toLowerCase(user.device_name), searchTerm)

\* the callback of the search filter
SearchMatches(user, searchTerm) ==
    \/ includes(toLowerCase(user.user_id), toLowerCase(searchTerm))
    \/ /\ TruthyProp(user, "device_name")
       /\ includes(toLowerCase(user.device_name), toLowerCase(searchTerm))

\* the value of the useMemo: the search filter, then the status filter
filteredUsers(users, searchTerm, statusFilter) ==
    LET searched == IF TruthyString(searchTerm)
                        THEN SelectSeq(users, LAMBDA user : SearchMatches(user, searchTerm))
                    ELSE users
    IN IF statusFilter # "all"
           THEN SelectSeq(searched, LAMBDA user : user.status = statusFilter)
       ELSE searched

\* the devices, search terms and status filters a render is tried with
ListDevices ==
    {[user_id |-> <<"a", "B">>, status |-> "idle"],
     [user_id |-> <<"b", "1">>, status |-> "listening", device_name |-> <<"A", "b">>],
     [user_id |-> <<"1">>, status |-> "offline", device_name |-> <<"B">>],
     [user_id |-> <<"A">>, status |-> "unknown", device_name |-> <<>>]}

MaxUsers == 3

RECURSIVE SeqsUpTo(_, _)
SeqsUpTo(S, n) ==
    IF n = 0 THEN {<<>>}
    ELSE LET shorter == SeqsUpTo(S, n - 1)
         IN shorter \cup {Append(q, x) : q \in shorter, x \in S}

SearchTerms == {<<>>, <<"a">>, <<"A", "b">>, <<"b">>, <<"1">>, <<"z">>}

StatusFilters == {"all", "listening", "idle", "offline"}

\* UserList renders: the memo is computed from its three inputs
RenderUserList(users, searchTerm, statusFilter) ==
    /\ call' = [op |-> "filteredUsers", users |-> users, searchTerm |-> searchTerm,
                statusFilter |-> statusFilter,
                value |-> filteredUsers(users, searchTerm, statusFilter)]
    /\ UNCHANGED <<dashboardData, loading, error, isPolling, lastUpdated,
                   connectionStatus, currentAudio, retryCount, env, serviceHealthy,
                   mounted, timers, pollInterval, inflight, commands, console, now>>

-----------------------------------------------------------------------------
(* UserList: formatLastSeen.  A timestamp is kept as the instant, in ms,   *)
(* that new Date(timestamp) denotes; `clock` is what new Date() reads.      *)

\* user.last_seen: absent, or a timestamp
NoTimestamp == [type |-> "undefined"]
Timestamp(ms) == [type |-> "date", ms |-> ms]

MS_PER_MINUTE == 60000
MINUTES_PER_HOUR == 60
HOURS_PER_DAY == 24

\* (mutant) labels whose buckets include their upper boundary
formatLastSeenInclusive(clock, timestamp) ==
    IF timestamp = NoTimestamp THEN "Never"
    ELSE LET diffMs == clock - timestamp.ms
             diffMins == diffMs \div MS_PER_MINUTE
             diffHours == diffMins \div MINUTES_PER_HOUR
             diffDays == diffHours \div HOURS_PER_DAY
         IN IF diffMins <= 1 THEN "Just now"
            ELSE IF diffMins <= 60 THEN ToString(diffMins) \o "m ago"
            ELSE IF diffHours <= 24 THEN ToString(diffHours) \o "h ago"
            ELSE ToString(diffDays) \o "d ago"

formatLastSeen(clock, timestamp) ==
    IF timestamp = NoTimestamp THEN "Never"
    ELSE LET diffMs == clock - timestamp.ms
             diffMins == diffMs \div MS_PER_MINUTE
             diffHours == diffMins \div MINUTES_PER_HOUR
             diffDays == diffHours \div HOURS_PER_DAY
         IN IF diffMins < 1 THEN "Just now"
            ELSE IF diffMins < 60 THEN ToString(diffMins) \o "m ago"
            ELSE IF diffHours < 24 THEN ToString(diffHours) \o "h ago"
            ELSE ToString(diffDays) \o "d ago"

\* the clock readings and the ages, in ms, a render is tried with
ClockReadings == {2000000000, 2000000123}

Ages ==
    {-60001, -1, 0, 1, 59999, 60000, 60001, 119999, 120000, 3599999, 3600000,
     3600001, 7199999, 7200000, 86399999, 86400000, 86400001, 172799999,
     172800000, 259200000}

\* a user card renders its "Last Seen" line
RenderLastSeen(clock, timestamp) ==
    /\ call' = [op |-> "formatLastSeen", clock |-> clock, timestamp |-> timestamp,
                value |-> formatLastSeen(clock, timestamp)]
    /\ UNCHANGED <<dashboardData, loading, error, isPolling, lastUpdated,
                   connectionStatus, currentAudio, retryCount, env, serviceHealthy,
                   mounted, timers, pollInterval, inflight, commands, console, now>>

\* one render of UserList, for any list of users and any filter the operator
\* typed (the two functions keep no state, so one application each is observed)
ListNext ==
    \/ \E users \in SeqsUpTo(ListDevices, MaxUsers), searchTerm \in SearchTerms,
          statusFilter \in StatusFilters :
           call = NoCall /\ RenderUserList(users, searchTerm, statusFilter)
    \/ \E clock \in ClockReadings, age \in Ages :
           call = NoCall /\ RenderLastSeen(clock, Timestamp(clock - age))
    \/ \E clock \in ClockReadings :
           call = NoCall /\ RenderLastSeen(clock, NoTimestamp)

SpecList == Init /\ [][ListNext]_vars

-----------------------------------------------------------------------------
(* The adapter called as a library *)

\* every response a request can come back with
AnyResponses == DataResponses \cup PlainResponses

DeviceIds == {"dev1", "dev2"}

RequestEndpoints ==
    {DASHBOARD_ENDPOINT, HEALTH_ENDPOINT}
        \cup {StartEndpoint(id) : id \in DeviceIds}
        \cup {StopEndpoint(id) : id \in DeviceIds}
        \cup {AudioEndpoint(id) : id \in DeviceIds}

\* options a caller of request can pass
RequestOptions ==
    {EmptyObject, PostOptions,
     [headers |-> ("X-Request-Id" :> "42")],
     [method |-> "POST", headers |-> ("Content-Type" :> "text/plain")],
     [headers |-> ("Authorization" :> "Bearer other")]}

\* ApiService.request(endpoint, options) is called and the service answers r
RequestCall(endpoint, options, r) ==
    /\ call' = [op |-> "request", endpoint |-> endpoint, options |-> options,
                response |-> r, sent |-> SentRequest(env, endpoint, options),
                result |-> Request(endpoint, r)]
    /\ UNCHANGED <<dashboardData, loading, error, isPolling, lastUpdated,
                   connectionStatus, currentAudio, retryCount, env, serviceHealthy,
                   mounted, timers, pollInterval, inflight, commands, console, now>>

AdapterOperations ==
    {"getDashboardData", "getHealthCheck", "startListening", "stopListening",
     "getLatestAudio"}

\* the endpoint, the options and the result of each operation of the adapter
OperationEndpoint(op, id) ==
    CASE op = "getDashboardData" -> DASHBOARD_ENDPOINT
      [] op = "getHealthCheck" -> HEALTH_ENDPOINT
      [] op = "startListening" -> StartEndpoint(id)
      [] op = "stopListening" -> StopEndpoint(id)
      [] op = "getLatestAudio" -> AudioEndpoint(id)

OperationOptions(op) ==
    IF op \in {"startListening", "stopListening"} THEN PostOptions ELSE EmptyObject

OperationResult(op, id, r) ==
    CASE op = "getDashboardData" -> getDashboardData(r)
      [] op = "getHealthCheck" -> getHealthCheck(r)
      [] op = "startListening" -> startListening(id, r)
      [] op = "stopListening" -> stopListening(id, r)
      [] op = "getLatestAudio" -> getLatestAudio(id, r)

\* an operation of the adapter is called and the service answers r
OperationCall(op, id, r) ==
    /\ call' = [op |-> op, endpoint |-> OperationEndpoint(op, id),
                options |-> OperationOptions(op), response |-> r,
                sent |-> SentRequest(env, OperationEndpoint(op, id),
                                     OperationOptions(op)),
                result |-> OperationResult(op, id, r)]
    /\ UNCHANGED <<dashboardData, loading, error, isPolling, lastUpdated,
                   connectionStatus, currentAudio, retryCount, env, serviceHealthy,
                   mounted, timers, pollInterval, inflight, commands, console, now>>

\* one call of the adapter, in any build (the adapter keeps no state between
\* calls)
AdapterNext ==
    \/ \E endpoint \in RequestEndpoints, options \in RequestOptions,
          r \in AnyResponses :
           call = NoCall /\ RequestCall(endpoint, options, r)
    \/ \E op \in AdapterOperations, id \in DeviceIds, r \in AnyResponses :
           call = NoCall /\ OperationCall(op, id, r)

SpecAdapter == InitAnyEnv /\ [][AdapterNext]_vars

-----------------------------------------------------------------------------

\* the polling engine
Next ==
    \/ TimePasses
    \/ \E t \in timers : TimerTick(t)
    \/ \E i \in 1..Len(inflight), r \in PlainResponses : HealthSettles(i, r)
    \/ \E i \in 1..Len(inflight), r \in DataResponses : DataSettles(i, r)
    \/ togglePolling
    \/ Unmount

\* the polling engine while polling stays active, and the command handlers
CommandNext ==
    \/ TimePasses
    \/ \E t \in timers : TimerTick(t)
    \/ \E i \in 1..Len(inflight), r \in PlainResponses : HealthSettles(i, r)
    \/ \E i \in 1..Len(inflight), r \in DataResponses : DataSettles(i, r)
    \/ \E u \in ShownDevices : handleStartListening(u)
    \/ \E u \in ShownDevices : handleStopListening(u)
    \/ \E j \in 1..Len(commands), r \in PlainResponses : StartListeningSettles(j, r)
    \/ \E j \in 1..Len(commands), r \in PlainResponses : StopListeningSettles(j, r)

\* the polling engine and the audio player
AudioNext ==
    \/ TimePasses
    \/ \E t \in timers : TimerTick(t)
    \/ \E i \in 1..Len(inflight), r \in PlainResponses : HealthSettles(i, r)
    \/ \E i \in 1..Len(inflight), r \in DataResponses : DataSettles(i, r)
    \/ togglePolling
    \/ Unmount
    \/ \E u \in ShownDevices : handlePlayAudio(u) /\ UNCHANGED call
    \/ handleCloseAudio /\ UNCHANGED call

Spec == Init /\ [][Next]_vars

SpecCommands == Init /\ [][CommandNext]_vars

SpecAudio == Init /\ [][AudioNext]_vars

\* the polling engine while polling stays active, and the two audio handlers
\* called as functions, with what each call gives its caller
PlaybackNext ==
    \/ TimePasses
    \/ \E t \in timers : TimerTick(t)
    \/ \E i \in 1..Len(inflight), r \in PlainResponses : HealthSettles(i, r)
    \/ \E i \in 1..Len(inflight), r \in DataResponses : DataSettles(i, r)
    \/ \E u \in ShownDevices :
           handlePlayAudio(u) /\ call' = Fulfilled("handlePlayAudio", u.user_id)
    \/ ControlsShown /\ closeAudio /\ call' = Fulfilled("handleCloseAudio", Undefined)

SpecPlayback == Init /\ [][PlaybackNext]_vars

\* the polling engine against a service that leaves optional fields out
SparseNext ==
    \/ TimePasses
    \/ \E t \in timers : TimerTick(t)
    \/ \E i \in 1..Len(inflight), r \in PlainResponses : HealthSettles(i, r)
    \/ \E i \in 1..Len(inflight), r \in SparseResponses : DataSettles(i, r)

SpecSparse == Init /\ [][SparseNext]_vars

\* the same, for every configuration of the build
SpecEnv == InitAnyEnv /\ [][PlaybackNext]_vars

-----------------------------------------------------------------------------
(* The engine under fair scheduling, with a service that recovers *)

\* the service comes back for good while the clock of the model still has a
\* poll period left
ServiceRecovers ==
    /\ ~serviceHealthy
    /\ now + POLL_INTERVAL <= Horizon
    /\ serviceHealthy' = TRUE
    /\ UNCHANGED <<dashboardData, loading, error, isPolling, lastUpdated,
                   connectionStatus, currentAudio, retryCount, env, call, mounted, timers,
                   pollInterval, inflight, commands, console, now>>

\* a healthy service answers 2xx with a body that parses to an object
ServiceAnswers(r) ==
    serviceHealthy
        => r.kind = "http" /\ ResponseOk(r) /\ r.body \notin {Unparsable, JsonNull}

HealthCompletes ==
    \E i \in 1..Len(inflight), r \in PlainResponses :
        ServiceAnswers(r) /\ HealthSettles(i, r)

DataCompletes ==
    \E i \in 1..Len(inflight), r \in DataResponses :
        ServiceAnswers(r) /\ DataSettles(i, r)

LiveNext ==
    \/ TimePasses
    \/ \E t \in timers : TimerTick(t)
    \/ HealthCompletes
    \/ DataCompletes
    \/ togglePolling
    \/ ServiceRecovers

\* time passes, a due interval fires and every request settles
Fairness ==
    /\ WF_vars(TimePasses)
    /\ WF_vars(\E t \in timers : TimerTick(t))
    /\ WF_vars(HealthCompletes)
    /\ WF_vars(DataCompletes)

SpecLive == Init /\ [][LiveNext]_vars /\ Fairness

-----------------------------------------------------------------------------
(* Outcomes of the data request, as the claims name them *)

\* network error or non-2xx response
RequestFailed(r) == r.kind = "network_error" \/ ~ResponseOk(r)

\* network error, non-2xx response or a body that does not parse
DataFetchFailed(r) == ThrownInTry(r) # Undefined

\* 2xx response with a parsed body
DataFetchSucceeded(r) == ThrownInTry(r) = Undefined

-----------------------------------------------------------------------------
(* C1 - C10 *)

\* C1: a timer tick that fires while a fetch is still pending starts no second
\* fetch (at most one fetch in flight).
C1_TickSkippedWhilePending ==
    [][\A t \in timers : (TimerTick(t) /\ inflight # <<>>) => inflight' = inflight]_vars

\* C2: a fetch that was in flight when polling was stopped publishes nothing
\* when it resolves. (A fetch called by the effect or the timer was called while
\* polling was active.)
C2_StaleFetchDiscarded ==
    [][\A i \in 1..Len(inflight), r \in DataResponses :
          (DataSettles(i, r) /\ mounted /\ ~isPolling /\ inflight[i].origin # "command")
              => UNCHANGED published]_vars

\* C3: a failed poll (network error or non-2xx) after a successful one leaves
\* the users list as it was.
C3_FailedPollKeepsUsers ==
    [][\A i \in 1..Len(inflight), r \in DataResponses :
          (DataSettles(i, r) /\ mounted /\ RequestFailed(r) /\ dashboardData \in Snapshots)
              => ShownUsers' = ShownUsers]_vars

\* C4: every failed fetch adds one to retryCount, so that it counts the
\* consecutive failures since the last success.
C4_RetryCountsFailures ==
    [][\A i \in 1..Len(inflight), r \in DataResponses :
          (DataSettles(i, r) /\ mounted /\ RequestFailed(r))
              => retryCount' = retryCount + 1]_vars

\* C5: the snapshot shown is never replaced by the response of a fetch that was
\* called before the fetch whose response is shown (stated for snapshots the
\* service sent: the one shown and the one arriving late).
C5_NoOutOfOrderSnapshot ==
    [][\A i \in 1..Len(inflight), r \in DataResponses :
          (DataSettles(i, r) /\ mounted /\ inflight[i].stale
              /\ dashboardData \in Snapshots /\ r.body \in Snapshots)
              => dashboardData' = dashboardData]_vars

\* C6: exactly one interval timer is armed while polling is active and none
\* while it is stopped; a step that leaves isPolling as it is arms no timer,
\* clears none and makes no effect call of fetchDashboardData.
C6_OneTimerIffPolling ==
    /\ [](Cardinality(timers) = IF mounted /\ isPolling THEN 1 ELSE 0)
    /\ [][(mounted' /\ isPolling' = isPolling)
             => /\ {t.id : t \in timers'} = {t.id : t \in timers}
                /\ pollInterval' = pollInterval
                /\ inflight' # Append(inflight, NewFetch("effect"))]_vars

\* polling was paused and resumed: the second effect call is in flight
C6_Witness ==
    /\ mounted /\ isPolling /\ ~loading
    /\ Cardinality(timers) = 1
    /\ \E i \in 1..Len(inflight) : inflight[i].origin = "effect"

\* C7: while polling is stopped, or after the Dashboard was unmounted, no timer
\* tick starts a fetch.
C7_NoTickWhileStopped ==
    [][(~isPolling \/ ~mounted) => ~(\E t \in timers : TimerTick(t))]_vars

\* polling was paused before the first tick was due and stayed paused to the end
C7_Witness ==
    /\ mounted /\ ~isPolling
    /\ lastUpdated < POLL_INTERVAL
    /\ now = Horizon

\* C8: while polling stays stopped nothing is published.
C8_NoPublicationWhileStopped ==
    [][(mounted /\ ~isPolling /\ ~isPolling') => UNCHANGED published]_vars

C10_FailureSetsError ==
    /\ [][\A i \in 1..Len(inflight), r \in DataResponses :
             (DataSettles(i, r) /\ mounted /\ isPolling
                 /\ (DataFetchFailed(r) \/ r.body = JsonNull))
                 => connectionStatus' = "error"]_vars
    /\ [][(connectionStatus = "error" /\ connectionStatus' # "error")
             => \E i \in 1..Len(inflight), r \in DataResponses :
                    DataSettles(i, r) /\ DataFetchSucceeded(r)]_vars

\* a poll has failed on the network while polling was active
C10_Witness ==
    /\ mounted /\ isPolling
    /\ connectionStatus = "error"
    /\ dashboardData = FallbackData("Failed to fetch")

-----------------------------------------------------------------------------
(* C11 - C20 *)

\* C11: after every failed data fetch (network error or non-2xx) the error
\* state holds a non-empty description of the failure, so connectionStatus is
\* 'error' only together with a non-null error.
C11_FailedFetchRecordsError ==
    /\ [][\A i \in 1..Len(inflight), r \in DataResponses :
             (DataSettles(i, r) /\ mounted /\ RequestFailed(r))
                 => error' \notin {Null, ""}]_vars
    /\ [](connectionStatus = "error" => error # Null)

\* a data request that did not deliver a snapshot: network error, non-2xx,
\* unparsable body or a null body
FetchFailed(r) == DataFetchFailed(r) \/ r.body = JsonNull

C14_HealthFailureDoesNotBlock ==
    /\ [][\A i \in 1..Len(inflight), r \in PlainResponses :
             (HealthSettles(i, r) /\ RequestFailed(r))
                 => /\ Len(inflight') = Len(inflight)
                    /\ inflight'[i].phase = "data"
                    /\ UNCHANGED <<published, loading>>]_vars
    /\ [][\A i \in 1..Len(inflight), r \in DataResponses :
             (DataSettles(i, r) /\ mounted)
                 => /\ connectionStatus' =
                          IF FetchFailed(r) THEN "error"
                          ELSE IF r.body.connection_status = Undefined THEN "connected"
                          ELSE r.body.connection_status
                    /\ error' = IF DataFetchSucceeded(r) /\ r.body = JsonNull
                                    THEN TYPE_ERROR_MESSAGE
                                ELSE Null]_vars

\* the health probe of the first poll was rejected, and the poll has shown the
\* snapshot its data request returned
C14_Witness ==
    /\ mounted
    /\ console = HEALTH_WARNING
    /\ now = 0 /\ lastUpdated = 0
    /\ inflight = <<>>
    /\ dashboardData \in Snapshots
    /\ error = Null
    /\ connectionStatus # "error"

\* the running fetches that a command handler called
ForcedFetches(fs) == Len(SelectSeq(fs, LAMBDA f : f.origin = "command"))

\* a command's request comes back with a success response
CommandSucceeds(j, r) ==
    (StartListeningSettles(j, r) \/ StopListeningSettles(j, r)) /\ ~RequestFailed(r)

\* a command's request is rejected: network error or non-2xx
CommandFails(j, r) ==
    (StartListeningSettles(j, r) \/ StopListeningSettles(j, r)) /\ RequestFailed(r)

\* C15: a successful startListening or stopListening starts exactly one forced
\* refresh, at the moment its success response is received and whatever the
\* timer is doing; pressing the button starts none, and no other step starts
\* one.
C15_OneRefreshPerSuccess ==
    /\ [][\A j \in 1..Len(commands), r \in PlainResponses :
             CommandSucceeds(j, r)
                 => /\ inflight' = Append(inflight, NewFetch("command"))
                    /\ timers' = timers]_vars
    /\ [][\A u \in ShownDevices :
             (handleStartListening(u) \/ handleStopListening(u))
                 => inflight' = inflight]_vars
    /\ [][ForcedFetches(inflight') > ForcedFetches(inflight)
             => \E j \in 1..Len(commands), r \in PlainResponses :
                    CommandSucceeds(j, r)]_vars

\* a command has succeeded between two ticks and its refresh is in flight
C15_Witness ==
    /\ commands = <<>>
    /\ \E k \in 1..Len(inflight) : inflight[k].origin = "command"
    /\ \E t \in timers : now < t.due /\ t.due < now + POLL_INTERVAL

\* C16: a startListening or stopListening call that fails starts no refresh
\* fetch and leaves dashboardData, connectionStatus, lastUpdated and
\* currentAudio as they are; the handler catches the rejection, logs it and
\* returns.
C16_FailedCommandChangesNothing ==
    [][\A j \in 1..Len(commands), r \in PlainResponses :
          CommandFails(j, r)
              => /\ inflight' = inflight
                 /\ UNCHANGED <<dashboardData, connectionStatus, lastUpdated,
                                currentAudio>>
                 /\ commands' = WithoutCommand(j)
                 /\ console' \in {START_ERROR, STOP_ERROR}]_vars

\* a command was rejected: its handler has logged the failure and returned, and
\* the device is shown as before
C16_Witness ==
    /\ console \in {START_ERROR, STOP_ERROR}
    /\ commands = <<>>
    /\ inflight = <<>>
    /\ dashboardData = SnapshotB
    /\ connectionStatus = "disconnected"

\* C17: whenever startListening or stopListening is rejected, some
\* render-visible state changes to carry an error notification.
C17_CommandFailureSurfaced ==
    [][\A j \in 1..Len(commands), r \in PlainResponses :
          (CommandFails(j, r) /\ mounted) => rendered' # rendered]_vars

\* the interval as the effect armed it, and the polling flag
schedule == <<timers, pollInterval, isPolling>>

\* C18: a forced refresh does not reset or restart the polling timer: neither
\* the step that starts it nor any step in which it resumes changes the armed
\* interval, the time of its next tick or isPolling.
C18_ForcedRefreshKeepsTimer ==
    /\ [][\A j \in 1..Len(commands), r \in PlainResponses :
             CommandSucceeds(j, r) => schedule' = schedule]_vars
    /\ [][\A i \in 1..Len(inflight), r \in PlainResponses :
             (HealthSettles(i, r) /\ inflight[i].origin = "command")
                 => schedule' = schedule]_vars
    /\ [][\A i \in 1..Len(inflight), r \in DataResponses :
             (DataSettles(i, r) /\ inflight[i].origin = "command")
                 => schedule' = schedule]_vars

\* half a period after mount a forced refresh is running, and the next tick is
\* still due one period after mount
C18_Witness ==
    /\ mounted /\ isPolling
    /\ now = ClockStep
    /\ timers = {[id |-> pollInterval, due |-> POLL_INTERVAL]}
    /\ \E k \in 1..Len(inflight) :
           inflight[k].origin = "command" /\ inflight[k].phase = "data"

\* C19: commands never block polling and are mutually independent: while
\* commands are in flight a due tick can start its fetch and no command step
\* moves the timer, a further command can be issued from every shown device,
\* and every pending command can complete at once, whatever its place among
\* the others (a completion with a refresh needs a free fetch slot of the
\* model).
C19_CommandsIndependent ==
    /\ [](\A t \in timers :
             (commands # <<>> /\ now >= t.due /\ Len(inflight) < MaxInFlight)
                 => ENABLED TimerTick(t))
    /\ []((ControlsShown /\ commands # <<>> /\ Len(commands) < MaxCommands)
             => \A u \in ShownDevices :
                    ENABLED (handleStartListening(u) \/ handleStopListening(u)))
    /\ [](\A j \in 1..Len(commands) :
             /\ ENABLED (\E r \in PlainResponses : CommandFails(j, r))
             /\ Len(inflight) < MaxInFlight
                    => ENABLED (\E r \in PlainResponses : CommandSucceeds(j, r)))
    /\ [][(commands' # commands) => timers' = timers]_vars

\* two commands for different devices are in flight, the younger one is a
\* start, and a tick is due
C19_Witness ==
    /\ Len(commands) = 2
    /\ commands[1].userId # commands[2].userId
    /\ commands[2].kind = "start"
    /\ Len(inflight) < MaxInFlight
    /\ \E t \in timers : now >= t.due

\* C20: there is at most one audio session: currentAudio is null or one session
\* record, and a playback request for a device that has latest audio leaves
\* exactly one session, which references that device, whatever session was
\* open before.
C20_SingleAudioSession ==
    /\ [](\/ currentAudio = JsonNull
          \/ /\ DOMAIN currentAudio = {"type", "url", "user", "filename"}
             /\ currentAudio.user \in {"dev1", "dev2"})
    /\ [][\A u \in ShownDevices :
             (handlePlayAudio(u) /\ u.latest_audio # <<>>)
                 => /\ currentAudio' # JsonNull
                    /\ currentAudio'.user = u.user_id
                    /\ currentAudio'.filename = u.latest_audio[Len(u.latest_audio)]]_vars

\* the session that is open plays dev2's recording, while dev1's recording of
\* the earlier snapshot is no longer offered
C20_Witness ==
    /\ dashboardData = SnapshotB
    /\ currentAudio # JsonNull
    /\ currentAudio.user = "dev2"
    /\ currentAudio.filename = "b.wav"

-----------------------------------------------------------------------------
(* C21 - C30 *)

\* a call of handlePlayAudio for device u returns to its caller
PlayAudioReturns(u) ==
    handlePlayAudio(u) /\ call' = Fulfilled("handlePlayAudio", u.user_id)

\* C21: a playback request for a device without latest audio gives its caller
\* an error outcome: the call is rejected, or some state the caller renders
\* from or the log changes to carry the error.
C21_NoAudioIsAnError ==
    [][\A u \in ShownDevices :
          (PlayAudioReturns(u) /\ u.latest_audio = <<>>)
              => \/ call'.outcome = "rejected"
                 \/ rendered' # rendered
                 \/ console' # console]_vars

\* C22: a playback request for a device without latest audio creates no
\* session and sends no request: currentAudio, the running fetches and the
\* running commands are the same after the call as before it.
C22_NoAudioNoSession ==
    [][\A u \in ShownDevices :
          (PlayAudioReturns(u) /\ u.latest_audio = <<>>)
              => /\ currentAudio' = currentAudio
                 /\ inflight' = inflight
                 /\ commands' = commands]_vars

\* the last call asked for dev1, which has no audio, while dev2's session was
\* open: the session is still dev2's
C22_Witness ==
    /\ call = Fulfilled("handlePlayAudio", "dev1")
    /\ dashboardData = SnapshotB
    /\ currentAudio # JsonNull
    /\ currentAudio.user = "dev2"

\* the devices the service reports
AllDevices == UNION {{s.users[k] : k \in 1..Len(s.users)} : s \in Snapshots}

\* C23: for every configuration of the build, the URL of the audio session is
\* the adapter's resolved base URL followed by the latest_audio path of the
\* session's device.
C23_PlaybackUsesAdapterOrigin ==
    currentAudio # JsonNull
        => \E u \in AllDevices :
               /\ u.user_id = currentAudio.user
               /\ u.latest_audio # <<>>
               /\ currentAudio.url = getApiUrl(env) \o JoinPath(u.latest_audio)

\* a call of handleCloseAudio returns to its caller
CloseAudioReturns ==
    ControlsShown /\ closeAudio /\ call' = Fulfilled("handleCloseAudio", Undefined)

\* C24: close tears down the audio session and is idempotent: after it there
\* is no session and the call returns normally; it never changes
\* dashboardData, connectionStatus or the polling state, and when there was no
\* session it changes no state of the component at all.
C24_CloseIsIdempotent ==
    [][CloseAudioReturns
          => /\ currentAudio' = JsonNull
             /\ call'.outcome = "fulfilled"
             /\ UNCHANGED <<dashboardData, connectionStatus, schedule, inflight>>
             /\ currentAudio = JsonNull
                    => UNCHANGED <<rendered, schedule, inflight, commands, console,
                                   retryCount>>]_vars

\* close was called although no device, hence no session, had ever been shown
C24_Witness ==
    /\ call = Fulfilled("handleCloseAudio", Undefined)
    /\ currentAudio = JsonNull
    /\ now = 0
    /\ inflight = <<>>
    /\ dashboardData # JsonNull
    /\ dashboardData.users = <<>>

\* the first two devices of the list, by their ids
DeviceAB == CHOOSE d \in ListDevices : d.user_id = <<"a", "B">>
DeviceB1 == CHOOSE d \in ListDevices : d.user_id = <<"b", "1">>
Device1 == CHOOSE d \in ListDevices : d.user_id = <<"1">>

\* a device passes the search and the status filter, as the claim words it
PassesFilters(user, searchTerm, statusFilter) ==
    /\ \/ includes(toLowerCase(user.user_id), toLowerCase(searchTerm))
       \/ /\ "device_name" \in DOMAIN user
          /\ includes(toLowerCase(user.device_name), toLowerCase(searchTerm))
    /\ statusFilter = "all" \/ user.status = statusFilter

\* C25: the filtered list is the ordered sub-sequence of users whose user_id or
\* label contains the term case-insensitively and whose status passes the
\* filter; a device without label matches a non-empty term through its id
\* only, and a non-empty term that no id or label contains gives the empty
\* list.
C25_FilteredIsSubsequence ==
    call.op = "filteredUsers"
        => /\ call.value =
                 SelectSeq(call.users,
                           LAMBDA user : PassesFilters(user, call.searchTerm,
                                                       call.statusFilter))
           /\ (/\ call.searchTerm # <<>>
               /\ \A k \in 1..Len(call.users) :
                      /\ ~includes(toLowerCase(call.users[k].user_id),
                                   toLowerCase(call.searchTerm))
                      /\ "device_name" \in DOMAIN call.users[k]
                             => ~includes(toLowerCase(call.users[k].device_name),
                                          toLowerCase(call.searchTerm)))
                  => call.value = <<>>

\* the term "Ab" finds one device by its id "aB" and one by its label "Ab", in
\* the order of the list, and drops the third
C25_Witness ==
    /\ call.op = "filteredUsers"
    /\ call.users = <<DeviceAB, Device1, DeviceB1>>
    /\ call.searchTerm = <<"A", "b">>
    /\ call.statusFilter = "all"
    /\ call.value = <<DeviceAB, DeviceB1>>

MS_PER_HOUR == MS_PER_MINUTE * MINUTES_PER_HOUR
MS_PER_DAY == MS_PER_HOUR * HOURS_PER_DAY

\* C26: the last-seen label is a function of the clock reading and the
\* timestamp: 'Never' without timestamp, 'Just now' below one minute of age,
\* whole minutes below one hour, whole hours below one day, whole days from
\* there on, each boundary falling in the later bucket.
C26_LastSeenLabel ==
    call.op = "formatLastSeen"
        => IF call.timestamp = NoTimestamp THEN call.value = "Never"
           ELSE LET age == call.clock - call.timestamp.ms
                IN /\ age < MS_PER_MINUTE => call.value = "Just now"
                   /\ (MS_PER_MINUTE <= age /\ age < MS_PER_HOUR)
                          => call.value = ToString(age \div MS_PER_MINUTE) \o "m ago"
                   /\ (MS_PER_HOUR <= age /\ age < MS_PER_DAY)
                          => call.value = ToString(age \div MS_PER_HOUR) \o "h ago"
                   /\ MS_PER_DAY <= age
                          => call.value = ToString(age \div MS_PER_DAY) \o "d ago"

\* a device seen exactly one hour ago is labelled in hours
C26_Witness ==
    /\ call.op = "formatLastSeen"
    /\ call.timestamp # NoTimestamp
    /\ call.clock - call.timestamp.ms = MS_PER_HOUR
    /\ call.value = "1h ago"

\* C27: for every operation of the adapter, a non-2xx response and a network
\* failure both reach the caller as a rejected request, never as a value.
C27_FailuresAreRejections ==
    (call.op \in AdapterOperations /\ RequestFailed(call.response))
        => call.result.threw

\* C29: every request sent by ApiService.request, for any endpoint and any
\* options (options with their own headers included), carries the Authorization
\* header with the adapter's static credential.
C29_RequestCarriesCredential ==
    call.op = "request"
        => /\ "Authorization" \in DOMAIN call.sent.config.headers
           /\ call.sent.config.headers["Authorization"] = AUTH_HEADER

C30_StatusInDomain ==
    /\ connectionStatus \in {"connecting", "connected", "error"}
    /\ loading => connectionStatus = "connecting"

-----------------------------------------------------------------------------
(* C31 .. C36 *)

\* C31: each start of polling (the mount, and every change from paused to
\* active) at once starts exactly one fetch and arms one interval that is due
\* 2000 ms later; after that the timers change only when the interval fires, at
\* its due time, which starts one fetch and moves the due time on by 2000 ms: a
\* fetch that completes never moves a tick.
C31_StartOfPolling ==
    /\ (now = 0 /\ inflight = << NewFetch("effect") >>
           /\ timers = {[id |-> pollInterval, due |-> now + POLL_INTERVAL]})
    /\ [][(~isPolling /\ isPolling')
              => /\ inflight' = Append(inflight, NewFetch("effect"))
                 /\ timers' = {[id |-> pollInterval', due |-> now + POLL_INTERVAL]}]_vars
    /\ [][(isPolling' = isPolling /\ mounted' = mounted /\ timers' # timers)
              => \E t \in timers :
                     /\ now = t.due
                     /\ timers' = (timers \ {t})
                                      \cup {[t EXCEPT !.due = t.due + POLL_INTERVAL]}
                     /\ inflight' = Append(inflight, NewFetch("timer"))]_vars

\* polling was resumed half a period after the mount: one fetch was started by
\* the effect and the interval is due a full period after the resumption
C31_Witness ==
    /\ isPolling
    /\ now = ClockStep
    /\ timers = {[id |-> pollInterval, due |-> ClockStep + POLL_INTERVAL]}
    /\ Len(inflight) > 0
    /\ inflight[Len(inflight)] = NewFetch("effect")

\* C32: polling and audio playback are independent: a step in which a fetch is
\* started, moves on or completes, or in which polling is paused or resumed,
\* leaves currentAudio as it was (whatever became of the session's device in
\* the new snapshot); and a step that opens, replaces or closes the session
\* changes none of dashboardData, connectionStatus, lastUpdated, error and
\* isPolling.
C32_PollingAudioIndependent ==
    /\ [][(\/ inflight' # inflight
            \/ isPolling' # isPolling
            \/ <<dashboardData, connectionStatus, lastUpdated, error>>'
                   # <<dashboardData, connectionStatus, lastUpdated, error>>)
              => currentAudio' = currentAudio]_vars
    /\ [][currentAudio' # currentAudio
              => UNCHANGED <<dashboardData, connectionStatus, lastUpdated, error,
                             isPolling, schedule, inflight>>]_vars

\* dev2's session is still open although the snapshot on the screen no longer
\* lists dev2
C32_Witness ==
    /\ currentAudio # JsonNull
    /\ currentAudio.user = "dev2"
    /\ dashboardData = SnapshotA
    /\ \A u \in ShownDevices : u.user_id # "dev2"

C34_FailedPollKeepsLastUpdated ==
    [][\A i \in 1..Len(inflight), r \in DataResponses :
          (DataSettles(i, r) /\ RequestFailed(r))
              => lastUpdated' = lastUpdated]_vars

\* C35: when the catch branch of fetchDashboardData runs, dashboardData and
\* lastUpdated are left unchanged, error is set to the exception's message,
\* connectionStatus is set to 'error' and loading becomes false; loading is
\* false after the first fetch completes by either branch and never becomes
\* true again.
C35_CatchBranchFrame ==
    /\ [][\A i \in 1..Len(inflight), r \in DataResponses :
              (DataSettles(i, r) /\ mounted
                   /\ FetchLog(getDashboardData(r)) = FETCH_ERROR)
                  => /\ dashboardData' = dashboardData
                     /\ lastUpdated' = lastUpdated
                     /\ error' = TYPE_ERROR_MESSAGE
                     /\ connectionStatus' = "error"
                     /\ ~loading']_vars
    /\ [][\A i \in 1..Len(inflight), r \in DataResponses :
              (DataSettles(i, r) /\ mounted) => ~loading']_vars
    /\ [][~loading => ~loading']_vars

\* the running polls whose data request has been sent
DataRequestsOut == {i \in 1..Len(inflight) : inflight[i].phase = "data"}

\* C36: within one poll the data request is sent only after that poll's health
\* probe has settled: a poll starts with its probe pending and no data request
\* out, the number of data requests out grows only in a step in which a probe
\* settles, and what a poll publishes changes only in a step in which that
\* poll's data request, sent after its probe, settles.
C36_ProbeBeforeData ==
    /\ [][Len(inflight') > Len(inflight)
              => /\ inflight'[Len(inflight')].phase = "health"
                 /\ Cardinality(DataRequestsOut') = Cardinality(DataRequestsOut)]_vars
    /\ [][Cardinality(DataRequestsOut') > Cardinality(DataRequestsOut)
              => \E i \in 1..Len(inflight) :
                     /\ inflight[i].phase = "health"
                     /\ \E r \in PlainResponses : HealthSettles(i, r)]_vars
    /\ [][<<dashboardData, lastUpdated, connectionStatus, error>>'
               # <<dashboardData, lastUpdated, connectionStatus, error>>
              => \E i \in DataRequestsOut, r \in DataResponses : DataSettles(i, r)]_vars

\* two polls are running: the data request of the first is out, the second is
\* still waiting for its probe
C36_Witness ==
    /\ Len(inflight) = 2
    /\ inflight[1].phase = "data"
    /\ inflight[2].phase = "health"
    /\ DataRequestsOut = {1}
====
